---- MODULE Spec2Model ----
(***************************************************************************)
(* Model of src/mcp_components.py: the Xircuits components that declare    *)
(* MCP tools, resources and prompts in a graph, attach their handlers to a *)
(* FastMCP server and run a graph chain on every incoming call.            *)
(*                                                                         *)
(* The process-wide execution context `ctx` is a Python dict.  Its keys    *)
(* are modelled by separate variables:                                     *)
(*   ctx[MCP_SERVER_KEY]                        -> server                  *)
(*   ctx[MCP_TOOLS_KEY / _RESOURCES_ / _PROMPTS_] -> pending[kind]         *)
(*   ctx['tool_result' / 'resource_result' / 'prompt_result'] -> ctx[key]  *)
(* The FastMCP server is an external object; what the components do to it  *)
(* is modelled by `handlers` (the handler functions it holds) and by the   *)
(* registration calls each operation issued to it (lastOp.calls).          *)
(* server._tool / _resource / _prompt are taken to be its registration     *)
(* calls: each attaches the handler or raises.                             *)
(*                                                                         *)
(* SpecReg lets the main graph execute its components in any order; Spec   *)
(* follows one main graph up to server.run() and then the calls the server *)
(* makes to the handlers, two of which may overlap.                        *)
(* SpecArgs is that main graph with chains that read the handler's         *)
(* arguments; SpecLive is that main graph with one call and writes to the  *)
(* process-wide ctx while the call runs; SpecAux executes MCPGetArgument,  *)
(* MCPReportProgress and MCPReadResource with any inputs.                  *)
(***************************************************************************)
EXTENDS Integers, Sequences, FiniteSets, TLC

(* ------------------------------ bounds -------------------------------- *)
MaxReg == 3        \* init() calls of Define components in one run
MaxCreate == 2     \* successful MCPCreateServer executions
MaxChain == 2      \* nodes a chain executes in one invocation
MaxMain == 1       \* MCPSet*Result executions in the main graph
MaxLate == 1       \* further MCPSet*Result executions while the server serves

(* ----------------------------- constants ------------------------------ *)
MCP_SERVER_KEY == "mcp_server"
MCP_TOOLS_KEY == "mcp_tools"
MCP_RESOURCES_KEY == "mcp_resources"
MCP_PROMPTS_KEY == "mcp_prompts"
DefaultServerName == "xircuits-mcp-server"

None == "None"         \* Python's None
Absent == "absent"     \* a key the dict does not hold
NoServer == [id |-> 0, name |-> ""]  \* MCP_SERVER_KEY not in ctx
NoSet == "noset"       \* no Set*Result node has run in the invocation
Obj == "obj"           \* a reference to one mutable object (a list)

Kinds == {"Tool", "Resource", "Prompt"}
ResultKeys == {"tool_result", "resource_result", "prompt_result"}

\* The list of the process-wide ctx that a Define component of a kind appends
\* itself to.
PendingKey(kind) ==
    CASE kind = "Tool" -> MCP_TOOLS_KEY
      [] kind = "Resource" -> MCP_RESOURCES_KEY
      [] kind = "Prompt" -> MCP_PROMPTS_KEY

\* Set*Result components that all write the one key 'tool_result'.
SetKeyOfTool(kind) == "tool_result"

\* The key a Set*Result component of a kind writes.
SetKey(kind) ==
    CASE kind = "Tool" -> "tool_result"
      [] kind = "Resource" -> "resource_result"
      [] kind = "Prompt" -> "prompt_result"

\* A handler copied from the tool's without changing the key it reads.
ResultKeyOfTool(kind) == "tool_result"

\* The key the handler of a kind reads after its chain has run.
ResultKey(kind) ==
    CASE kind = "Tool" -> "tool_result"
      [] kind = "Resource" -> "resource_result"
      [] kind = "Prompt" -> "prompt_result"

(* ------------------- the Define components of the graph ---------------- *)
\* Five component instances: three tools, a resource and a prompt.  T2 has
\* nothing wired to its `next` port; T3 carries the same name as T1.
Descs == {"T1", "T2", "T3", "R1", "P1"}

Kind(d) ==
    CASE d \in {"T1", "T2", "T3"} -> "Tool"
      [] d = "R1" -> "Resource"
      [] d = "P1" -> "Prompt"

\* self.name.value / self.path.value
Identity(d) ==
    CASE d \in {"T1", "T3"} -> "add"
      [] d = "T2" -> "ping"
      [] d = "R1" -> "users://{id}/profile"
      [] d = "P1" -> "greet"

\* hasattr(self, 'next') and self.next
HasChain(d) == d # "T2"

(* ------------------------------ values -------------------------------- *)
ChainVals == {"v1", "v2"}   \* values a Set*Result node of a chain is given
MainVals == {"v1", Obj}     \* values a Set*Result node of the main graph is given
ServerNames == {"", "s"}    \* server_name inputs of MCPCreateServer
\* Two incoming calls, which may overlap, and the **kwargs each carries;
\* ctx |-> None: the call carries no 'ctx'.
\* "A" is the call that arrives first.
Invs == {"A", "B"}
KwargsOf(i) == IF i = "A" THEN [a |-> "x1", ctx |-> None] ELSE [a |-> "x2", ctx |-> "h"]
NoKwargs == [a |-> None, ctx |-> None]

VARIABLES
    libAvailable,  \* whether `from mcp.server.fastmcp import FastMCP` succeeds
    server,        \* ctx[MCP_SERVER_KEY]: NoServer or [id, name]
    pending,       \* ctx[MCP_*_KEY]: per kind, the list of registered components
    handlers,      \* the handler functions the current server holds, by component
    ctx,           \* the result keys of the process-wide ctx
    objLen,        \* content (length) of the mutable object Obj refers to
    serving,       \* server.run() has been entered on the current server
    lastOp,        \* the last main-graph operation and how it ended
    nMain,         \* Set*Result executions in the main graph so far
    argsOut,       \* self.args.value of each Define component
    ctxOut,        \* self.ctx.value of each Define component
    inv,           \* the handler invocations
    argValue,      \* self.value.value of the MCPGetArgument component
    readOut,       \* self.data.value and self.mime_type.value of MCPReadResource
    lastAux        \* the last execute() of an auxiliary component and how it went

\* The outputs of the auxiliary components (MCPGetArgument,
\* MCPReportProgress, MCPReadResource).
auxVars == <<argValue, readOut, lastAux>>

vars == <<libAvailable, server, pending, handlers, ctx, objLen, serving, lastOp,
          nMain, argsOut, ctxOut, inv, auxVars>>

EmptyCtx == [k \in ResultKeys |-> Absent]

\* What a chain has read of its Define component's `args` and `ctx` outputs:
\* nothing yet.
NoRead == [a |-> "unread", ctx |-> "unread"]

IdleInv ==
    [pc |-> "idle", d |-> None, local |-> EmptyCtx, steps |-> 0,
     lastSet |-> NoSet, outcome |-> "none", result |-> None, printed |-> <<>>,
     seen |-> NoRead]

\* What is recorded of an execute() of an auxiliary component: the component,
\* its inputs, how execute() ended, the calls it made on the caller handle
\* (those that went through), and the lines it printed.
AuxOp(op, in, outcome, calls, printed) ==
    [op |-> op, in |-> in, outcome |-> outcome, calls |-> calls,
     printed |-> printed]

NoAux == AuxOp("none", [none |-> None], "none", <<>>, <<>>)

\* What is recorded of a main-graph operation: the component executed, its
\* input, how it ended, the components for which it made a registration call
\* on the server, what the server answered, and whether the component was
\* attached before the operation.
Op(op, arg, outcome, calls, answer, wasBound) ==
    [op |-> op, arg |-> arg, outcome |-> outcome, calls |-> calls,
     answer |-> answer, wasBound |-> wasBound]

Init ==
    /\ libAvailable \in BOOLEAN
    /\ server = NoServer
    /\ pending = [k \in Kinds |-> <<>>]
    /\ handlers = <<>>
    /\ ctx = EmptyCtx
    /\ objLen = 0
    /\ serving = FALSE
    /\ lastOp = Op("none", None, "none", {}, "none", FALSE)
    /\ nMain = 0
    /\ argsOut = [d \in Descs |-> NoKwargs]
    /\ ctxOut = [d \in Descs |-> None]
    /\ inv = [i \in Invs |-> IdleInv]
    /\ argValue = None
    /\ readOut = [data |-> None, mime_type |-> None]
    /\ lastAux = NoAux

(* ----------------------------- helpers -------------------------------- *)
Count(s, x) == Cardinality({i \in 1..Len(s) : s[i] = x})

Range(s) == {s[i] : i \in 1..Len(s)}

\* The components in the lists of the process-wide ctx.
Registered == UNION {Range(pending[k]) : k \in Kinds}

\* init() calls so far: each appends one entry to one list.
NumRegs == Len(pending["Tool"]) + Len(pending["Resource"]) + Len(pending["Prompt"])

\* The component's handler is attached to the current server.
Bound(d) == d \in Range(handlers)

\* The server already holds a handler of that kind under that identity.
Collides(d) ==
    \E h \in Range(handlers) : Kind(h) = Kind(d) /\ Identity(h) = Identity(d)

(* --------------------------- MCPCreateServer --------------------------- *)
\* MCPCreateServer without the default for an empty name.
EffectiveNameAsGiven(name) == name

\* `if not name: name = "xircuits-mcp-server"`
EffectiveName(name) == IF name = "" THEN DefaultServerName ELSE name

\* The components, in order, for which MCPCreateServer.execute makes a
\* registration call on the server it created: none, it only stores the
\* server in ctx.
CreateBinds(p) == <<>>

MCPCreateServer(name) ==
    /\ ~serving
    /\ IF ~libAvailable
       THEN \* except ImportError: print, return
            /\ lastOp' = Op("createServer", name, "failed", {}, "none", FALSE)
            /\ UNCHANGED <<server, handlers>>
       ELSE /\ server' = [id |-> server.id + 1, name |-> EffectiveName(name)]
            /\ handlers' = CreateBinds(pending)
            /\ lastOp' = Op("createServer", name, "created",
                            Range(CreateBinds(pending)), "none", FALSE)
    /\ UNCHANGED <<libAvailable, pending, ctx, objLen, serving, nMain, argsOut,
                   ctxOut, inv,
                   auxVars>>

(* ---------------- MCPDefineTool / Resource / Prompt: init -------------- *)
\* init without the immediate registration.
ShouldRegisterNever(s) == FALSE

\* `if MCP_SERVER_KEY in ctx:` before self._register_*(ctx)
ShouldRegister(s) == s # NoServer

\* What the server may answer to server._tool(name=...)(handler),
\* server._resource(path)(handler), server._prompt(name=...)(handler): it
\* attaches the handler, or, when it already holds one under that identity,
\* it may raise instead.
ServerAnswers(d) ==
    {"accepted"} \cup (IF Collides(d) THEN {"rejected"} ELSE {})

\* init with the registration call inside a try that prints and goes on.
InitOutcomeSwallowed(answer) == "returned"

\* How init ends for an answer of the server: nothing in init or _register_*
\* catches what the registration call raises.
InitOutcome(answer) == IF answer = "accepted" THEN "returned" ELSE "raised"

\* _register_tool / _register_resource / _register_prompt: the handler is
\* built and handed to the server, whatever the server holds already.
RegisterHandler(d, answer) ==
    handlers' = IF answer = "accepted" THEN Append(handlers, d) ELSE handlers

DefineInit(d) ==
    /\ ~serving
    /\ pending' = [pending EXCEPT ![Kind(d)] = Append(@, d)]
    /\ IF ShouldRegister(server)
       THEN \E answer \in ServerAnswers(d) :
                /\ RegisterHandler(d, answer)
                /\ lastOp' = Op("init", d, InitOutcome(answer), {d}, answer, Bound(d))
       ELSE /\ UNCHANGED handlers
            /\ lastOp' = Op("init", d, "returned", {}, "none", Bound(d))
    /\ UNCHANGED <<libAvailable, server, serving, ctx, objLen, nMain, argsOut,
                   ctxOut, inv,
                   auxVars>>

MCPDefineTool_init(d) == Kind(d) = "Tool" /\ DefineInit(d)
MCPDefineResource_init(d) == Kind(d) = "Resource" /\ DefineInit(d)
MCPDefinePrompt_init(d) == Kind(d) = "Prompt" /\ DefineInit(d)

(* ----------------------------- MCPRunServer ---------------------------- *)
\* The three loops over ctx.get(MCP_*_KEY, []) have `pass` as their body;
\* server.run() then serves calls and does not return to the main graph.
MCPRunServer ==
    /\ ~serving
    /\ lastOp.op # "run"
    /\ IF server = NoServer
       THEN /\ lastOp' = Op("run", None, "failed", {}, "none", FALSE)
            /\ UNCHANGED serving
       ELSE /\ serving' = TRUE
            /\ lastOp' = Op("run", None, "running", {}, "none", FALSE)
    /\ UNCHANGED <<libAvailable, server, pending, handlers, ctx, objLen, nMain,
                   argsOut, ctxOut, inv,
                   auxVars>>

(* ------ MCPSetToolResult / ResourceResult / PromptResult: execute ------ *)
\* A Set*Result that keeps the value the key already holds
\* (ctx.setdefault(key, value)).
SetResultOnce(c, kind, v) ==
    IF c[SetKey(kind)] = Absent THEN [c EXCEPT ![SetKey(kind)] = v] ELSE c

\* ctx['tool_result'] = self.result.value: a plain assignment on the context
\* the component is executed with, whatever the key held.
SetResult(c, kind, v) == [c EXCEPT ![SetKey(kind)] = v]

(* ------------- MCPSet*Result executed by the main graph ---------------- *)
\* ctx['tool_result'] = self.result.value, with the process-wide ctx
MainSetResult(kind, v) ==
    /\ ~serving
    /\ nMain' = nMain + 1
    /\ ctx' = SetResult(ctx, kind, v)
    /\ UNCHANGED <<libAvailable, server, pending, handlers, objLen, serving,
                   lastOp, argsOut, ctxOut, inv,
                   auxVars>>

(* ------------- tool_handler / resource_handler / prompt_handler -------- *)
\* dict.get(key): None for a key the dict does not hold
Get(m, k) == IF m[k] = Absent THEN None ELSE m[k]

\* A handler that copies ctx where it is built, in _register_*: with the main
\* graph below, no result key is held at that time.
CopyCtxAtBind(c) == [k \in ResultKeys |-> Absent]

\* tool_ctx = ctx.copy(): a new dict with the same keys, holding the same
\* objects (a value that is a reference still refers to the one object).
CopyCtx(c) == [k \in ResultKeys |-> c[k]]

\* From the call to the test of self.next; a handler with nothing on `next`
\* returns `result = None` at once.  The handler's context is a local: it is
\* gone when the handler has returned.
InvokeStart(i, d, kw) ==
    /\ inv[i].pc = "idle"
    /\ i = "B" => inv["A"].pc # "idle"
    /\ serving
    /\ Bound(d)
    /\ argsOut' = [argsOut EXCEPT ![d] = kw]
    /\ ctxOut' = [ctxOut EXCEPT ![d] = kw.ctx]
    /\ inv' = [inv EXCEPT ![i] =
                 [@ EXCEPT !.d = d,
                           !.local = IF HasChain(d) THEN CopyCtx(ctx) ELSE EmptyCtx,
                           !.pc = IF HasChain(d) THEN "chain" ELSE "done",
                           !.outcome = IF HasChain(d) THEN "none" ELSE "returned",
                           !.result = None]]
    /\ UNCHANGED <<libAvailable, server, pending, handlers, ctx, objLen, serving,
                   lastOp, nMain,
                   auxVars>>

\* A node of the chain is MCPSetToolResult / ResourceResult / PromptResult:
\* ctx[key] = self.result.value on the context the chain was given, and a
\* line printed.
ChainSetResult(i, kind, v) ==
    /\ inv[i].pc = "chain"
    /\ inv[i].steps < MaxChain
    /\ inv' = [inv EXCEPT ![i] =
                 [@ EXCEPT !.local = SetResult(@, kind, v),
                           !.steps = @ + 1,
                           !.lastSet = IF kind = Kind(inv[i].d) THEN v ELSE @,
                           !.printed = Append(@, "Set result")]]
    /\ UNCHANGED <<libAvailable, server, pending, handlers, ctx, objLen, serving,
                   lastOp, nMain, argsOut, ctxOut,
                   auxVars>>

\* A node of the chain changes, in place, the object its context holds under
\* a key (tool_ctx[key].append(...)).
ChainMutate(i, key) ==
    /\ inv[i].pc = "chain"
    /\ inv[i].steps < MaxChain
    /\ inv[i].local[key] = Obj
    /\ objLen' = objLen + 1
    /\ inv' = [inv EXCEPT ![i] = [@ EXCEPT !.steps = @ + 1]]
    /\ UNCHANGED <<libAvailable, server, pending, handlers, ctx, serving, lastOp,
                   nMain, argsOut, ctxOut,
                   auxVars>>

\* A node of the chain raises: SubGraphExecutor(self.next).do(tool_ctx) is
\* not inside a try, so the handler ends with the exception.
ChainRaise(i) ==
    /\ inv[i].pc = "chain"
    /\ inv[i].steps < MaxChain
    /\ inv' = [inv EXCEPT ![i] =
                 [@ EXCEPT !.pc = "done", !.outcome = "raised", !.steps = @ + 1,
                           !.local = EmptyCtx]]
    /\ UNCHANGED <<libAvailable, server, pending, handlers, ctx, objLen, serving,
                   lastOp, nMain, argsOut, ctxOut,
                   auxVars>>

\* The chain is over: result = tool_ctx.get('tool_result'); return result
InvokeReturn(i) ==
    /\ inv[i].pc = "chain"
    /\ inv' = [inv EXCEPT ![i] =
                 [@ EXCEPT !.pc = "done", !.outcome = "returned",
                           !.result = Get(inv[i].local, ResultKey(Kind(inv[i].d))),
                           !.local = EmptyCtx]]
    /\ UNCHANGED <<libAvailable, server, pending, handlers, ctx, objLen, serving,
                   lastOp, nMain, argsOut, ctxOut,
                   auxVars>>

(* ------------------------- the specifications ------------------------- *)
\* The main graph executes its components in any order, any number of times
\* within the bounds.
CreateAny == \E name \in ServerNames : server.id < MaxCreate /\ MCPCreateServer(name)
ToolInitAny == \E d \in Descs : NumRegs < MaxReg /\ MCPDefineTool_init(d)
ResourceInitAny == \E d \in Descs : NumRegs < MaxReg /\ MCPDefineResource_init(d)
PromptInitAny == \E d \in Descs : NumRegs < MaxReg /\ MCPDefinePrompt_init(d)
MainSetAny == \E kind \in Kinds, v \in MainVals : nMain < MaxMain /\ MainSetResult(kind, v)

NextReg ==
    \/ CreateAny
    \/ ToolInitAny
    \/ ResourceInitAny
    \/ PromptInitAny
    \/ MainSetAny
    \/ MCPRunServer

SpecReg == Init /\ [][NextReg]_vars

\* One main graph: it creates the server "s", declares T1, T2, R1 and P1 in
\* that order, may execute Set*Result components, and runs the server; the
\* server then calls the handlers.
MainGraph == <<"T1", "T2", "R1", "P1">>
GraphCreate == lastOp.op = "none" /\ MCPCreateServer("s")
GraphInit(d) == lastOp.op # "none" /\ NumRegs < Len(MainGraph) /\ d = MainGraph[NumRegs + 1]
GraphToolInit == \E d \in Descs : GraphInit(d) /\ MCPDefineTool_init(d)
GraphResourceInit == \E d \in Descs : GraphInit(d) /\ MCPDefineResource_init(d)
GraphPromptInit == \E d \in Descs : GraphInit(d) /\ MCPDefinePrompt_init(d)
GraphMainSet == NumRegs = Len(MainGraph) /\ MainSetAny
GraphRun == NumRegs = Len(MainGraph) /\ MCPRunServer

Next ==
    \/ GraphCreate
    \/ GraphToolInit
    \/ GraphResourceInit
    \/ GraphPromptInit
    \/ GraphMainSet
    \/ GraphRun
    \/ \E i \in Invs, d \in Descs : InvokeStart(i, d, KwargsOf(i))
    \/ \E i \in Invs, kind \in Kinds, v \in ChainVals : ChainSetResult(i, kind, v)
    \/ \E i \in Invs, key \in ResultKeys : ChainMutate(i, key)
    \/ \E i \in Invs : ChainRaise(i)
    \/ \E i \in Invs : InvokeReturn(i)

Spec == Init /\ [][Next]_vars

(* ------------- a chain that reads the handler's arguments -------------- *)
\* A node of the chain reads the `args` and `ctx` outputs of its Define
\* component (they are wired to its inputs): it gets what self.args.value
\* and self.ctx.value hold when it executes.
ChainReadArgs(i) ==
    /\ inv[i].pc = "chain"
    /\ inv[i].steps < MaxChain
    /\ inv' = [inv EXCEPT ![i] =
                 [@ EXCEPT !.seen = [a |-> argsOut[inv[i].d].a,
                                     ctx |-> ctxOut[inv[i].d]],
                           !.steps = @ + 1]]
    /\ UNCHANGED <<libAvailable, server, pending, handlers, ctx, objLen, serving,
                   lastOp, nMain, argsOut, ctxOut, auxVars>>

\* The main graph of Spec, with handlers whose chains read their arguments.
NextArgs ==
    \/ GraphCreate
    \/ GraphToolInit
    \/ GraphResourceInit
    \/ GraphPromptInit
    \/ GraphRun
    \/ \E i \in Invs, d \in Descs : InvokeStart(i, d, KwargsOf(i))
    \/ \E i \in Invs : ChainReadArgs(i)
    \/ \E i \in Invs : InvokeReturn(i)

SpecArgs == Init /\ [][NextArgs]_vars

(* -------- the process-wide ctx written while a call is running -------- *)
\* A Set*Result component is executed with the process-wide ctx while the
\* server serves (by whatever runs beside the server): ctx[key] = value.
LateSetResult(kind, v) ==
    /\ serving
    /\ nMain' = nMain + 1
    /\ ctx' = SetResult(ctx, kind, v)
    /\ UNCHANGED <<libAvailable, server, pending, handlers, objLen, serving,
                   lastOp, argsOut, ctxOut, inv, auxVars>>

LateSetAny ==
    \E kind \in Kinds, v \in MainVals :
        nMain < MaxMain + MaxLate /\ LateSetResult(kind, v)

\* The main graph of Spec and one call, with writes to the process-wide ctx
\* before and during the call.
NextLive ==
    \/ GraphCreate
    \/ GraphToolInit
    \/ GraphResourceInit
    \/ GraphPromptInit
    \/ GraphMainSet
    \/ GraphRun
    \/ LateSetAny
    \/ \E d \in Descs : InvokeStart("A", d, KwargsOf("A"))
    \/ \E kind \in Kinds, v \in ChainVals : ChainSetResult("A", kind, v)
    \/ InvokeReturn("A")

SpecLive == Init /\ [][NextLive]_vars

(* ---------------------------- MCPGetArgument --------------------------- *)
\* The `args` input: None, or a dict over the keys below, each one absent,
\* or present with the value "x" or with the value None.
ArgKeys == {"", "k", "j"}
ArgMaps == [ArgKeys -> {Absent, "x", None}]
NoArgs == [none |-> TRUE, m |-> [k \in ArgKeys |-> Absent]]
ArgsInputs == {NoArgs} \cup {[none |-> FALSE, m |-> f] : f \in ArgMaps}
KeyInputs == ArgKeys \cup {None}
Defaults == {None, "d"}

\* `not args`: None or a dict that holds nothing
ArgsFalsy(args) == args.none \/ \A k \in ArgKeys : args.m[k] = Absent

\* `not key`: None or the empty string
KeyFalsy(key) == key \in {None, ""}

\* key in args
HasKey(args, key) == ~args.none /\ key \in ArgKeys /\ args.m[key] # Absent

\* args.get(key) without the default
ArgsGetNoDefault(args, key, default) ==
    IF HasKey(args, key) THEN args.m[key] ELSE None

\* args.get(key, default)
ArgsGet(args, key, default) ==
    IF HasKey(args, key) THEN args.m[key] ELSE default

MCPGetArgument(args, key, default) ==
    /\ IF ArgsFalsy(args)
       THEN /\ argValue' = default
            /\ lastAux' = AuxOp("getArgument",
                                [args |-> args, key |-> key, default |-> default],
                                "returned", <<>>,
                                <<"Warning: Args dictionary is empty or None">>)
       ELSE IF KeyFalsy(key)
       THEN \* print, return: self.value.value is not assigned
            /\ UNCHANGED argValue
            /\ lastAux' = AuxOp("getArgument",
                                [args |-> args, key |-> key, default |-> default],
                                "returned", <<>>, <<"Error: Key is required">>)
       ELSE /\ argValue' = ArgsGet(args, key, default)
            /\ lastAux' = AuxOp("getArgument",
                                [args |-> args, key |-> key, default |-> default],
                                "returned", <<>>, <<>>)
    /\ UNCHANGED <<libAvailable, server, pending, handlers, ctx, objLen, serving,
                   lastOp, nMain, argsOut, ctxOut, inv, readOut>>

(* --------------------------- MCPReportProgress ------------------------- *)
\* The caller handle given to a component: None, or the handle "h".  A call
\* on the handle either returns or raises.
Handles == {None, "h"}
Currents == {None, "0", "5"}     \* None, 0, 5
Totals == {None, "0", "10"}      \* None, 0, 10
Messages == {None, "", "m"}

\* A call made on the caller handle, and whether it returned (ok) or raised.
HandleCall(call, a, b, ok) == [call |-> call, a |-> a, b |-> b, ok |-> ok]

\* `not ctx_obj`
HandleFalsy(h) == h = None

\* `if message:`: None and the empty string are not sent
MessageTruthy(message) == message \notin {None, ""}

\* A test of `current` alone.
CurrentMissing(current, total) == current = None

\* `current is None or total is None`: 0 is a value, not a missing one
ProgressInputsMissing(current, total) == current = None \/ total = None

\* The try block with the two calls the other way round.
ReportCallsProgressFirst(message, current, total, infoOk, progOk) ==
    <<HandleCall("report_progress", current, total, progOk)>>
    \o (IF MessageTruthy(message) /\ progOk
        THEN <<HandleCall("info", message, None, infoOk)>> ELSE <<>>)

\* The calls the try block makes, in order: ctx_obj.info(message) when there
\* is a message, then ctx_obj.report_progress(current, total); a call that
\* raises ends the block.
ReportCalls(message, current, total, infoOk, progOk) ==
    IF MessageTruthy(message)
    THEN <<HandleCall("info", message, None, infoOk)>>
         \o (IF infoOk
             THEN <<HandleCall("report_progress", current, total, progOk)>>
             ELSE <<>>)
    ELSE <<HandleCall("report_progress", current, total, progOk)>>

MCPReportProgress(h, current, total, message, infoOk, progOk) ==
    /\ lastAux' =
         LET in == [ctx_obj |-> h, current |-> current, total |-> total,
                    message |-> message]
             calls == ReportCalls(message, current, total, infoOk, progOk)
         IN  IF HandleFalsy(h)
             THEN AuxOp("reportProgress", in, "returned", <<>>,
                        <<"Error: MCP context object is required">>)
             ELSE IF ProgressInputsMissing(current, total)
             THEN AuxOp("reportProgress", in, "returned", <<>>,
                        <<"Error: Current and total progress values are required">>)
             ELSE \* except Exception: print
                  AuxOp("reportProgress", in, "returned", calls,
                        IF \A n \in 1..Len(calls) : calls[n].ok
                        THEN <<"Reported progress">>
                        ELSE <<"Error reporting progress">>)
    /\ UNCHANGED <<libAvailable, server, pending, handlers, ctx, objLen, serving,
                   lastOp, nMain, argsOut, ctxOut, inv, argValue, readOut>>

(* ---------------------------- MCPReadResource -------------------------- *)
Uris == {None, "", "u1", "u2"}

\* `not uri`
UriFalsy(uri) == uri \in {None, ""}

\* What ctx_obj.read_resource(uri) may do: return a (data, mime type) pair,
\* raise, or return something that is not a pair (the unpacking raises).
ReadAnswers == {"pair", "raises", "notpair"}

\* The pair the caller handle returns for a uri.
ResourceAt(uri) ==
    IF uri = "u1" THEN [data |-> "d1", mime_type |-> "text/plain"]
                  ELSE [data |-> "d2", mime_type |-> "image/png"]

\* An execute() that resets both outputs before it reads.
ReadOutputsCleared(out, uri, answer) ==
    IF answer = "pair" THEN ResourceAt(uri) ELSE [data |-> None, mime_type |-> None]

\* The outputs after the try block: both assigned from the pair, or, when
\* the call or the unpacking raised, not assigned.
ReadOutputs(out, uri, answer) ==
    IF answer = "pair" THEN ResourceAt(uri) ELSE out

MCPReadResource(h, uri, answer) ==
    /\ LET in == [ctx_obj |-> h, uri |-> uri]
       IN  IF HandleFalsy(h)
           THEN /\ UNCHANGED readOut
                /\ lastAux' = AuxOp("readResource", in, "returned", <<>>,
                                    <<"Error: MCP context object is required">>)
           ELSE IF UriFalsy(uri)
           THEN /\ UNCHANGED readOut
                /\ lastAux' = AuxOp("readResource", in, "returned", <<>>,
                                    <<"Error: Resource URI is required">>)
           ELSE /\ readOut' = ReadOutputs(readOut, uri, answer)
                /\ lastAux' = AuxOp("readResource", in, "returned",
                                    <<HandleCall("read_resource", uri, None,
                                                 answer # "raises")>>,
                                    IF answer = "pair"
                                    THEN <<"Read resource">>
                                    ELSE <<"Error reading resource">>)
    /\ UNCHANGED <<libAvailable, server, pending, handlers, ctx, objLen, serving,
                   lastOp, nMain, argsOut, ctxOut, inv, argValue>>

\* The auxiliary components, executed with any inputs, any number of times.
GetArgumentAny ==
    \E args \in ArgsInputs, key \in KeyInputs, default \in Defaults :
        MCPGetArgument(args, key, default)

ReportProgressAny ==
    \E h \in Handles, current \in Currents, total \in Totals,
       message \in Messages, infoOk \in BOOLEAN, progOk \in BOOLEAN :
        MCPReportProgress(h, current, total, message, infoOk, progOk)

ReadResourceAny ==
    \E h \in Handles, uri \in Uris, answer \in ReadAnswers :
        MCPReadResource(h, uri, answer)

NextAux ==
    \/ GetArgumentAny
    \/ ReportProgressAny
    \/ ReadResourceAny

SpecAux == Init /\ [][NextAux]_vars

(* ============================== the claims ============================= *)

\* Another entry of the lists carries the identity of d: d is registered
\* twice, or another component of its kind has its name / path.
IdentityCollides(d) ==
    \/ Count(pending[Kind(d)], d) > 1
    \/ \E e \in Registered \ {d} : Kind(e) = Kind(d) /\ Identity(e) = Identity(d)

\* C1: once MCPCreateServer has created the first server, every component
\* registered before it (while ctx held no server) is attached to the server,
\* unless its identity collides with another registered one.
C1_BoundAfterCreateServer ==
    (lastOp.op = "createServer" /\ lastOp.outcome = "created" /\ server.id = 1)
        => \A d \in Registered : Bound(d) \/ IdentityCollides(d)

\* C2: when init of a Define component of any kind returns and ctx holds a
\* server, the component's handler is attached to that server.
C2_BoundOnReturn ==
    (lastOp.op = "init" /\ lastOp.outcome = "returned" /\ server # NoServer)
        => Bound(lastOp.arg)

\* C2 witness: a tool, a resource and a prompt were declared after the server
\* was created; the last init has returned and all three are attached.
C2_Witness ==
    /\ lastOp.op = "init" /\ lastOp.outcome = "returned" /\ server # NoServer
    /\ lastOp.arg = "P1"
    /\ {"T1", "R1", "P1"} \subseteq Range(handlers)

\* C3: the server holds at most one handler per component, and init of a
\* component that is attached already makes no registration call and returns.
C3_BoundAtMostOnce ==
    /\ \A d \in Descs : Count(handlers, d) <= 1
    /\ (lastOp.op = "init" /\ lastOp.wasBound)
           => (lastOp.calls = {} /\ lastOp.outcome = "returned")

\* What the chain of invocation j can read in its context: each key's value
\* and, for a reference, the content of the object it refers to.
View(j) ==
    [k \in ResultKeys |->
        <<inv[j].local[k], IF inv[j].local[k] = Obj THEN objLen ELSE 0>>]

\* C4: a step of the chain of one invocation changes nothing of what the chain
\* of another running invocation can read in its own context.
C4_Isolation ==
    [][\A i, j \in Invs :
          (i # j /\ inv[i].pc = "chain" /\ inv'[i] # inv[i]
                 /\ inv[j].pc = "chain" /\ inv'[j] = inv[j])
              => View(j)' = View(j)]_vars

\* C5: an invocation whose chain executed Set*Result of the handler's kind,
\* last with value v, and then completed, returns v.
C5_SetResultReturned ==
    \A i \in Invs :
        (inv[i].pc = "done" /\ inv[i].outcome = "returned" /\ inv[i].lastSet # NoSet)
            => inv[i].result = inv[i].lastSet

\* C5 witness: a resource call and a prompt call have both returned the value
\* their chain set, while the process-wide ctx holds another value.
C5_Witness ==
    /\ inv["A"].pc = "done" /\ inv["A"].d = "R1" /\ inv["A"].outcome = "returned"
    /\ inv["A"].lastSet = "v2" /\ inv["A"].result = "v2"
    /\ inv["B"].pc = "done" /\ inv["B"].d = "P1" /\ inv["B"].outcome = "returned"
    /\ inv["B"].lastSet = "v1" /\ inv["B"].result = "v1"
    /\ ctx["resource_result"] = Obj

\* C6: an invocation whose chain executed no Set*Result of the handler's kind
\* returns None.
C6_NoSetResultEmpty ==
    \A i \in Invs :
        (inv[i].pc = "done" /\ inv[i].outcome = "returned" /\ inv[i].lastSet = NoSet)
            => inv[i].result = None

\* C7: every invocation ends by returning to the server, never by an
\* exception, and returns None when its chain raised.
C7_ExceptionsCaught ==
    \A i \in Invs : inv[i].pc = "done" => inv[i].outcome = "returned"

\* C8: an invocation of a handler with nothing on `next` returns None, runs no
\* node, does not raise, and reports one MissingChainError.
C8_MissingChainReported ==
    \A i \in Invs :
        (inv[i].pc = "done" /\ ~HasChain(inv[i].d))
            => /\ inv[i].outcome = "returned"
               /\ inv[i].result = None
               /\ inv[i].steps = 0
               /\ Count(inv[i].printed, "MissingChainError") = 1

\* C9 as stated: MCPCreateServer fails when the library is unavailable or the
\* name is empty, and then ctx holds no server and nothing is attached.
C9_FailsOnEmptyName ==
    (lastOp.op = "createServer" /\ (~libAvailable \/ lastOp.arg = ""))
        => (lastOp.outcome = "failed" /\ server = NoServer /\ handlers = <<>>)

\* C9 amended: MCPCreateServer fails exactly when the library is unavailable;
\* an empty name is replaced by "xircuits-mcp-server" and the server is
\* created.  After a failed MCPCreateServer ctx holds no server, nothing is
\* attached, and the failing step changed nothing else of ctx.
C9_FailsOnlyWithoutLibrary ==
    /\ [](lastOp.op = "createServer" =>
            /\ (lastOp.outcome = "failed") <=> ~libAvailable
            /\ lastOp.outcome = "failed" => (server = NoServer /\ handlers = <<>>)
            /\ lastOp.outcome = "created" =>
                   server.name = (IF lastOp.arg = "" THEN DefaultServerName
                                                     ELSE lastOp.arg))
    /\ [][(lastOp' # lastOp /\ lastOp'.op = "createServer" /\ lastOp'.outcome = "failed")
              => UNCHANGED <<server, pending, handlers, ctx, serving>>]_vars

\* C9 witness: MCPCreateServer has failed after components were declared.
C9_Witness ==
    /\ lastOp.op = "createServer" /\ lastOp.outcome = "failed"
    /\ Registered # {}
    /\ server = NoServer /\ handlers = <<>>

\* C10: when the server rejects the registration call of init, init raises to
\* its caller and a component that was not attached stays unattached; no
\* operation other than a component's own init makes a registration call for
\* it, so a component becomes attached only in its own init.
C10_RejectionSurfacedNoRetry ==
    /\ [](/\ lastOp.answer = "rejected" =>
                /\ lastOp.op = "init" /\ lastOp.outcome = "raised"
                /\ ~lastOp.wasBound => ~Bound(lastOp.arg)
          /\ lastOp.op # "init" => lastOp.calls = {})
    /\ [][\A d \in Descs :
              (~Bound(d) /\ Bound(d)') => (lastOp'.op = "init" /\ lastOp'.arg = d)]_vars

\* C10 witness: T1 is attached, the server has rejected T3 (same name), init
\* of T3 has raised and T3 is not attached.
C10_Witness ==
    /\ lastOp.op = "init" /\ lastOp.arg = "T3" /\ lastOp.answer = "rejected"
    /\ lastOp.outcome = "raised"
    /\ Bound("T1") /\ ~Bound("T3")
(* ---- C11 ---- *)
\* C11: when the chain of one invocation executes a Set*Result node of the
\* handler's own kind after an earlier one, the later value replaces the
\* earlier one and the chain goes on (nothing is raised); the handler that
\* then returns, returns the value set last.
C11_LastWriteWins ==
    [][\A i \in Invs :
          /\ (inv[i].lastSet # NoSet /\ inv'[i].lastSet # inv[i].lastSet) =>
                 /\ inv'[i].pc = "chain"
                 /\ Get(inv'[i].local, ResultKey(Kind(inv'[i].d))) = inv'[i].lastSet
          /\ (inv[i].pc = "chain" /\ inv[i].lastSet # NoSet
                 /\ inv'[i].pc = "done" /\ inv'[i].outcome = "returned") =>
                 inv'[i].result = inv[i].lastSet]_vars

\* The chain of the tool T1 has executed two Set*Result nodes, both
\* MCPSetToolResult (no other result key is held), the second with "v2", and
\* its context holds "v2" as the tool result.
C11_Witness ==
    /\ ctx = EmptyCtx
    /\ inv["A"].d = "T1" /\ inv["A"].pc = "chain"
    /\ Len(inv["A"].printed) = 2
    /\ inv["A"].lastSet = "v2"
    /\ inv["A"].local = [EmptyCtx EXCEPT !["tool_result"] = "v2"]

(* ---- C12 ---- *)
\* C12, as stated: after getArgument, whatever args, key and default are,
\* the output is args[key] when the key is in args and default otherwise.
C12_ValueOrDefault ==
    lastAux.op = "getArgument" =>
        argValue = IF HasKey(lastAux.in.args, lastAux.in.key)
                   THEN lastAux.in.args.m[lastAux.in.key]
                   ELSE lastAux.in.default

\* C12, amended: the output is default when args is None or empty (a warning,
\* not an error); with args not empty and a key that is not empty it is
\* args[key] when the key is in args and default otherwise; with args not
\* empty and the key None or empty, getArgument prints "Error: Key is
\* required" and leaves its output as it was.
C12_ValueOrDefaultKeyRequired ==
    /\ [](lastAux.op = "getArgument" =>
            /\ lastAux.outcome = "returned"
            /\ ArgsFalsy(lastAux.in.args) =>
                   /\ argValue = lastAux.in.default
                   /\ lastAux.printed # <<"Error: Key is required">>
            /\ (~ArgsFalsy(lastAux.in.args) /\ ~KeyFalsy(lastAux.in.key)) =>
                   /\ argValue = IF HasKey(lastAux.in.args, lastAux.in.key)
                                 THEN lastAux.in.args.m[lastAux.in.key]
                                 ELSE lastAux.in.default
                   /\ lastAux.printed = <<>>
            /\ (~ArgsFalsy(lastAux.in.args) /\ KeyFalsy(lastAux.in.key)) =>
                   lastAux.printed = <<"Error: Key is required">>)
    /\ [][(lastAux' # lastAux /\ lastAux'.op = "getArgument"
             /\ ~ArgsFalsy(lastAux'.in.args) /\ KeyFalsy(lastAux'.in.key))
            => argValue' = argValue]_vars

\* getArgument({"k": "x"}, "", "d") was executed after an execution that
\* had output "x": the output is still "x", neither args[""] nor "d".
C12_Witness ==
    /\ lastAux.op = "getArgument"
    /\ lastAux.in = [args |-> [none |-> FALSE,
                               m |-> [k \in ArgKeys |-> IF k = "k" THEN "x" ELSE Absent]],
                    key |-> "", default |-> "d"]
    /\ lastAux.printed = <<"Error: Key is required">>
    /\ argValue = "x"

(* ---- C13 ---- *)
\* The calls of a kind among the calls made on the caller handle.
CallsOf(calls, call) == {n \in 1..Len(calls) : calls[n].call = call}

\* reportProgress was executed with a caller handle, current and total.
ProgressInputsPresent ==
    /\ lastAux.op = "reportProgress"
    /\ lastAux.in.ctx_obj # None
    /\ lastAux.in.current # None
    /\ lastAux.in.total # None

\* C13, as stated: with a caller handle, current and total present, a
\* message that is present is sent first, and the progress update with
\* (current, total) is sent exactly once.
C13_MessageThenProgressOnce ==
    ProgressInputsPresent =>
        /\ lastAux.in.message # None =>
               /\ Len(lastAux.calls) >= 1
               /\ lastAux.calls[1].call = "info"
               /\ lastAux.calls[1].a = lastAux.in.message
        /\ Cardinality(CallsOf(lastAux.calls, "report_progress")) = 1

\* C13, amended: with a caller handle, current and total present, a message
\* that is not empty is sent first and once (an empty one is not sent);
\* when that call returns, or there is no message to send, the progress
\* update with (current, total) is sent exactly once, as the last call; when
\* sending the message raises, the error is printed, execute returns, and no
\* progress update is sent.
C13_MessageThenProgressUnlessRaised ==
    ProgressInputsPresent =>
        LET calls == lastAux.calls
            msg == lastAux.in.message
            sent == MessageTruthy(msg)
        IN  /\ lastAux.outcome = "returned"
            /\ sent => /\ Len(calls) >= 1
                       /\ calls[1].call = "info" /\ calls[1].a = msg
                       /\ CallsOf(calls, "info") = {1}
            /\ ~sent => CallsOf(calls, "info") = {}
            /\ IF sent /\ ~calls[1].ok
               THEN /\ CallsOf(calls, "report_progress") = {}
                    /\ lastAux.printed = <<"Error reporting progress">>
               ELSE /\ CallsOf(calls, "report_progress") = {Len(calls)}
                    /\ calls[Len(calls)].a = lastAux.in.current
                    /\ calls[Len(calls)].b = lastAux.in.total

\* reportProgress(h, 0, 10, "m"): info("m") and then report_progress(0, 10)
\* were called on the handle, and both returned.
C13_Witness ==
    /\ lastAux.op = "reportProgress"
    /\ lastAux.in = [ctx_obj |-> "h", current |-> "0", total |-> "10", message |-> "m"]
    /\ lastAux.calls = <<HandleCall("info", "m", None, TRUE),
                         HandleCall("report_progress", "0", "10", TRUE)>>

(* ---- C14 ---- *)
\* C14: reportProgress executed with no caller handle, or with current or
\* total missing, makes no call on the caller handle, prints the error and
\* returns.
C14_NoOpWhenInputsMissing ==
    (/\ lastAux.op = "reportProgress"
     /\ \/ lastAux.in.ctx_obj = None
        \/ lastAux.in.current = None
        \/ lastAux.in.total = None) =>
        /\ lastAux.calls = <<>>
        /\ lastAux.outcome = "returned"
        /\ lastAux.printed \in
              {<<"Error: MCP context object is required">>,
               <<"Error: Current and total progress values are required">>}

\* reportProgress(h, 5, None, "m") made no call on the handle and printed
\* that current and total are required.
C14_Witness ==
    /\ lastAux.op = "reportProgress"
    /\ lastAux.in = [ctx_obj |-> "h", current |-> "5", total |-> None, message |-> "m"]
    /\ lastAux.calls = <<>>
    /\ lastAux.printed = <<"Error: Current and total progress values are required">>

(* ---- C15 ---- *)
\* The last readResource did not get a pair: it had no caller handle, or the
\* read raised (or it had no uri, or what the read returned was no pair).
ReadFailed(a) == a.op = "readResource" /\ a.printed # <<"Read resource">>

\* C15: readResource with no caller handle, or whose read raises, prints the
\* error and returns (nothing is raised past the node) and leaves data and
\* mime_type as they were before the call; a read that succeeds sets both
\* outputs to the pair the caller handle returned for that uri.
C15_ReadResourceOutputs ==
    /\ [](lastAux.op = "readResource" =>
            /\ lastAux.outcome = "returned"
            /\ (\/ lastAux.in.ctx_obj = None
                \/ \E n \in 1..Len(lastAux.calls) : ~lastAux.calls[n].ok) =>
                   /\ ReadFailed(lastAux)
                   /\ lastAux.printed \in
                         {<<"Error: MCP context object is required">>,
                          <<"Error reading resource">>}
            /\ ~ReadFailed(lastAux) =>
                   /\ lastAux.calls =
                         <<HandleCall("read_resource", lastAux.in.uri, None, TRUE)>>
                   /\ readOut = ResourceAt(lastAux.in.uri))
    /\ [][(lastAux' # lastAux /\ ReadFailed(lastAux')) => readOut' = readOut]_vars

\* readResource(h, "u2") raised in the read after an earlier readResource had
\* output the pair of "u1": the outputs still hold the pair of "u1".
C15_Witness ==
    /\ lastAux.op = "readResource"
    /\ lastAux.in = [ctx_obj |-> "h", uri |-> "u2"]
    /\ lastAux.calls = <<HandleCall("read_resource", "u2", None, FALSE)>>
    /\ readOut = ResourceAt("u1")

(* ---- C16 ---- *)
\* C16: what the chain of an invocation has read as its arguments and its
\* caller handle is what the invocation's own call carried, also when the
\* other invocation calls the same handler meanwhile.
C16_OwnArgsRead ==
    \A i \in Invs :
        inv[i].seen # NoRead =>
            inv[i].seen = [a |-> KwargsOf(i).a, ctx |-> KwargsOf(i).ctx]

(* ---- C17 ---- *)
\* C17: once one init (register) call and one createServer call have both
\* returned, in whichever order they ran, the registered component is in its
\* list of the process-wide ctx and its handler is attached to the server
\* exactly once.
C17_RegisteredAndBoundOnce ==
    (NumRegs = 1 /\ server.id = 1 /\ lastOp.outcome \in {"returned", "created"}) =>
        \A d \in Descs :
            d \in Registered <=> Count(handlers, d) = 1

(* ---- C18 ---- *)
\* The process-wide ctx as a reader sees it: under each result key, what the
\* key holds and, where that is the mutable object, the object's content.
CtxView ==
    [k \in ResultKeys |-> <<ctx[k], IF ctx[k] = Obj THEN objLen ELSE 0>>]

\* C18: no step of a handler invocation (the server is running: the steps are
\* those of the handlers and their chains) changes what the process-wide ctx
\* holds, keys and values.
C18_SharedContextUnchanged ==
    [][serving => CtxView' = CtxView]_vars

(* ---- C19 ---- *)
\* C19: the context a handler gives its chain is a copy of the process-wide
\* ctx as it is when the call starts, with every key written until then
\* (also after the handler was attached to the server); a key written to the
\* process-wide ctx while the call is running does not change the context of
\* the call.
C19_SnapshotAtCallStart ==
    [][\A i \in Invs :
          /\ (inv[i].pc = "idle" /\ inv'[i].pc = "chain") => inv'[i].local = ctx
          /\ (inv[i].pc = "chain" /\ inv'[i].pc = "chain" /\ ctx' # ctx) =>
                 inv'[i].local = inv[i].local]_vars

\* The tool T1 is being called: its context holds the tool result "v1" that
\* the main graph wrote after T1 was attached and before the call, and not
\* the resource result written to the process-wide ctx since the call began.
C19_Witness ==
    /\ inv["A"].d = "T1" /\ inv["A"].pc = "chain" /\ inv["A"].steps = 0
    /\ inv["A"].local = [EmptyCtx EXCEPT !["tool_result"] = "v1"]
    /\ ctx = [EmptyCtx EXCEPT !["tool_result"] = "v1", !["resource_result"] = "v1"]

(* ---- C20 ---- *)
\* C20: what a handler with a chain returns is the value under its own
\* kind's result key: the last value a Set*Result node of its own kind set
\* in the chain, or, when no such node ran, what the process-wide ctx holds
\* under that key; the Set*Result nodes of the other kinds that the chain
\* executed have no part in it.
C20_KindScopedResult ==
    \A i \in Invs :
        (inv[i].pc = "done" /\ inv[i].outcome = "returned" /\ HasChain(inv[i].d)) =>
            inv[i].result = IF inv[i].lastSet # NoSet
                            THEN inv[i].lastSet
                            ELSE Get(ctx, ResultKey(Kind(inv[i].d)))

\* The chain of the tool T1 executed two Set*Result nodes, none of them
\* MCPSetToolResult, and with no tool result in the process-wide ctx the
\* call returned None.
C20_Witness ==
    /\ inv["A"].d = "T1" /\ inv["A"].pc = "done" /\ inv["A"].outcome = "returned"
    /\ Len(inv["A"].printed) = 2
    /\ inv["A"].lastSet = NoSet
    /\ ctx["tool_result"] = Absent
    /\ inv["A"].result = None

====
